---- MODULE Spec2Model ----
(***************************************************************************)
(* Model of the configuration-to-command-line translation of the           *)
(* bids-mriqc gear: utils/args.py (get_inputs_and_args, validate,          *)
(* build_command) and run.py (generate_command).                           *)
(*                                                                         *)
(* Python strings are modelled as sequences of one-character strings, so   *)
(* that concatenation, slicing, startswith, split and str() are computed   *)
(* the way the code computes them.  A Python dict (insertion ordered) is a *)
(* sequence of [key, val] records with distinct keys.                      *)
(***************************************************************************)
EXTENDS Integers, Sequences, FiniteSets, TLC

VARIABLES config, param_list, command, cmd, i, pc, err,
          \* main and set_performance_config of run.py
          errors, warnings, dry_run, return_code, exec_calls,
          os_cpu_count, psutil_mem_gb, n_cpus, mem_gb

\* the state of main and of set_performance_config
mainvars == <<errors, warnings, dry_run, return_code, exec_calls,
              os_cpu_count, psutil_mem_gb, n_cpus, mem_gb>>

vars == <<config, param_list, command, cmd, i, pc, err, mainvars>>

-----------------------------------------------------------------------------
(* Bounds of the model *)

\* largest number of entries in an enumerated parameter map / configuration
MaxParams == 2

\* largest CPU count the machine may report
MaxCpu == 2

\* largest available memory the machine may report, in whole GiB
MaxMemGiB == 2

-----------------------------------------------------------------------------
(* String literals, as character sequences *)

s_empty == << >>
s_verbose == <<"v","e","r","b","o","s","e">>
s_verbose_reports == <<"v","e","r","b","o","s","e","-","r","e","p","o","r","t","s">>
s_n == <<"n">>
s_n_cpus == <<"n","_","c","p","u","s">>
s_float == <<"f","l","o","a","t">>
s_modality == <<"m","o","d","a","l","i","t","y">>
s_fd_thres == <<"f","d","_","t","h","r","e","s">>
s_gear_dry_run == <<"g","e","a","r","-","d","r","y","-","r","u","n">>
s_gear_ignore_bids_errors == <<"g","e","a","r","-","i","g","n","o","r","e","-","b","i","d","s","-","e","r","r","o","r","s">>
s_mem_gb == <<"m","e","m","_","g","b">>
s_gear_prefix == <<"g","e","a","r","-">>
s_bids_app_args == <<"b","i","d","s","_","a","p","p","_","a","r","g","s">>
s_start_idx == <<"s","t","a","r","t","-","i","d","x">>
s_stop_idx == <<"s","t","o","p","-","i","d","x">>
s_mriqc == <<"m","r","i","q","c">>
s_bids == <<"/","b","i","d","s">>
s_out == <<"/","o","u","t">>
s_group == <<"g","r","o","u","p">>
s_participant == <<"p","a","r","t","i","c","i","p","a","n","t">>
s_vvv == <<"v","v","v">>
s_vv == <<"v","v">>
s_T1w == <<"T","1","w">>
s_T2w == <<"T","2","w">>
s_T1w_T2w == <<"T","1","w"," ","T","2","w">>
s_a_b == <<"a"," ","b">>
s_a == <<"a">>
s_b == <<"b">>
s_True == <<"T","r","u","e">>
s_False == <<"F","a","l","s","e">>
s_dash == <<"-">>
s_ddash == <<"-","-">>
s_eq == <<"=">>
s_ddash_verbose == <<"-","-","v","e","r","b","o","s","e">>

-----------------------------------------------------------------------------
(* Python values: str, bool, int (the types a gear manifest can give) *)

StrVal(s) == [t |-> "str", s |-> s, b |-> FALSE, n |-> 0]
BoolVal(b) == [t |-> "bool", s |-> << >>, b |-> b, n |-> 0]
IntVal(n) == [t |-> "int", s |-> << >>, b |-> FALSE, n |-> n]
NoneVal == [t |-> "none", s |-> << >>, b |-> FALSE, n |-> 0]

\* main has not been entered: its lists are empty, its locals not yet bound
MainIdle ==
  /\ errors = << >>
  /\ warnings = << >>
  /\ dry_run = NoneVal
  /\ return_code = 0
  /\ exec_calls = 0
  /\ os_cpu_count = 0
  /\ psutil_mem_gb = 0
  /\ n_cpus = NoneVal
  /\ mem_gb = NoneVal

Param(k, v) == [key |-> k, val |-> v]

-----------------------------------------------------------------------------
(* Python built-ins *)

Digit(d) == <<"0","1","2","3","4","5","6","7","8","9">>[d + 1]

RECURSIVE NatStr(_)
NatStr(n) == IF n < 10 THEN <<Digit(n)>> ELSE NatStr(n \div 10) \o <<Digit(n % 10)>>

\* str(x) for a str, bool or int
PyStr(v) ==
  CASE v.t = "str" -> v.s
    [] v.t = "bool" -> (IF v.b THEN s_True ELSE s_False)
    [] v.t = "int" -> (IF v.n < 0 THEN s_dash \o NatStr(-v.n) ELSE NatStr(v.n))

Whitespace == {" ", "\t", "\n"}

\* s.split(): split on runs of whitespace, no empty pieces
RECURSIVE SplitWsFrom(_, _, _)
SplitWsFrom(s, j, cur) ==
  IF j > Len(s) THEN (IF cur = << >> THEN << >> ELSE <<cur>>)
  ELSE IF s[j] \in Whitespace
       THEN (IF cur = << >> THEN << >> ELSE <<cur>>) \o SplitWsFrom(s, j + 1, << >>)
       ELSE SplitWsFrom(s, j + 1, Append(cur, s[j]))

SplitWs(s) == SplitWsFrom(s, 1, << >>)

\* s.split(ch): split on every single occurrence of ch, empty pieces kept
RECURSIVE SplitOnFrom(_, _, _, _)
SplitOnFrom(s, ch, j, cur) ==
  IF j > Len(s) THEN <<cur>>
  ELSE IF s[j] = ch
       THEN <<cur>> \o SplitOnFrom(s, ch, j + 1, << >>)
       ELSE SplitOnFrom(s, ch, j + 1, Append(cur, s[j]))

SplitOn(s, ch) == SplitOnFrom(s, ch, 1, << >>)

\* s.startswith(p)
StartsWith(s, p) == Len(s) >= Len(p) /\ SubSeq(s, 1, Len(p)) = p

\* s[:n]
Prefix(s, n) == SubSeq(s, 1, IF Len(s) < n THEN Len(s) ELSE n)

-----------------------------------------------------------------------------
(* utils/args.py: build_command, one iteration of its loop over param_list *)

\* EmitParam without the nargs branch: every non-empty value as --key=value
EmitParam_NoSplit(c, key, val) ==
  IF Len(key) = 1
  THEN IF Len(PyStr(val)) # 0
       THEN c \o <<s_dash \o key, PyStr(val)>>
       ELSE Append(c, s_dash \o key)
  ELSE IF val.t = "bool"
       THEN (IF val.b THEN Append(c, s_ddash \o key) ELSE c)
       ELSE IF Len(PyStr(val)) = 0
            THEN Append(c, s_ddash \o key)
            ELSE Append(c, s_ddash \o key \o s_eq \o PyStr(val))

\* EmitParam without the boolean branch: a boolean goes out as --key=True/False
EmitParam_BoolAsValue(c, key, val) ==
  IF Len(key) = 1
  THEN IF Len(PyStr(val)) # 0
       THEN c \o <<s_dash \o key, PyStr(val)>>
       ELSE Append(c, s_dash \o key)
  ELSE IF Len(PyStr(val)) = 0
       THEN Append(c, s_ddash \o key)
       ELSE IF val.t = "str" /\ Len(SplitWs(val.s)) > 1
            THEN Append(c, s_ddash \o key) \o SplitWs(val.s)
            ELSE Append(c, s_ddash \o key \o s_eq \o PyStr(val))

\* EmitParam with the boolean test made before the key-length test: a short
\* key with a boolean value becomes a bare flag
EmitParam_BoolFirst(c, key, val) ==
  IF val.t = "bool"
  THEN (IF val.b
        THEN Append(c, (IF Len(key) = 1 THEN s_dash ELSE s_ddash) \o key)
        ELSE c)
  ELSE IF Len(key) = 1
       THEN IF Len(PyStr(val)) # 0
            THEN c \o <<s_dash \o key, PyStr(val)>>
            ELSE Append(c, s_dash \o key)
       ELSE IF Len(PyStr(val)) = 0
            THEN Append(c, s_ddash \o key)
            ELSE IF val.t = "str" /\ Len(SplitWs(val.s)) > 1
                 THEN Append(c, s_ddash \o key) \o SplitWs(val.s)
                 ELSE Append(c, s_ddash \o key \o s_eq \o PyStr(val))

\* the generic emission for one key (the if/else on the key's length)
EmitParam(c, key, val) ==
  IF Len(key) = 1
  THEN IF Len(PyStr(val)) # 0
       THEN c \o <<s_dash \o key, PyStr(val)>>
       ELSE Append(c, s_dash \o key)
  ELSE IF val.t = "bool"
       THEN (IF val.b THEN Append(c, s_ddash \o key) ELSE c)
       ELSE IF Len(PyStr(val)) = 0
            THEN Append(c, s_ddash \o key)
            ELSE IF val.t = "str" /\ Len(SplitWs(val.s)) > 1
                 THEN Append(c, s_ddash \o key) \o SplitWs(val.s)
                 ELSE Append(c, s_ddash \o key \o s_eq \o PyStr(val))

\* VerboseOverwrite with the value coerced, '-' + str(param_list[key]): no
\* TypeError, and a suppressed boolean overwrites the previous key's token
VerboseOverwrite_Coerced(c, key, val) ==
  IF key # s_verbose THEN [command |-> c, err |-> "none"]
  ELSE IF Len(c) = 0 THEN [command |-> c, err |-> "IndexError"]
  ELSE [command |-> [c EXCEPT ![Len(c)] = s_dash \o PyStr(val)], err |-> "none"]

\* command[-1] = '-' + param_list[key], when key == 'verbose'.  '-' + x raises
\* TypeError unless x is a str; assigning to [-1] of an empty list raises
\* IndexError.  The right-hand side is evaluated first.
VerboseOverwrite(c, key, val) ==
  IF key # s_verbose THEN [command |-> c, err |-> "none"]
  ELSE IF val.t # "str" THEN [command |-> c, err |-> "TypeError"]
  ELSE IF Len(c) = 0 THEN [command |-> c, err |-> "IndexError"]
  ELSE [command |-> [c EXCEPT ![Len(c)] = s_dash \o val.s], err |-> "none"]

\* the whole loop body for one key
BuildCommandKey(c, key, val) == VerboseOverwrite(EmitParam(c, key, val), key, val)

\* one iteration of "for key in param_list.keys()"; an exception leaves the
\* list as mutated so far and ends the call
build_command_iter ==
  /\ pc = "loop"
  /\ i <= Len(param_list)
  /\ LET r == BuildCommandKey(command, param_list[i].key, param_list[i].val) IN
       /\ command' = r.command
       /\ err' = r.err
       /\ pc' = IF r.err = "none" THEN "loop" ELSE "raised"
       /\ i' = IF r.err = "none" THEN i + 1 ELSE i
  /\ UNCHANGED <<config, param_list, cmd>>
  /\ UNCHANGED mainvars

\* the loop is exhausted: the call ends with the command list built
build_command_return ==
  /\ pc = "loop"
  /\ i > Len(param_list)
  /\ pc' = "built"
  /\ UNCHANGED <<config, param_list, command, cmd, i, err>>
  /\ UNCHANGED mainvars

-----------------------------------------------------------------------------
(* Inputs of the builder: gear_dict['command_line'] and gear_dict['param_list'] *)

Positionals == <<s_bids, s_out, s_participant>>

ProgramNames == {s_mriqc, s_empty}

CommandLines == { <<p>> \o Positionals : p \in ProgramNames }

BuildKeys == {s_verbose, s_n, s_float, s_modality, s_empty}

Values == {StrVal(s_empty), StrVal(s_vv), StrVal(s_a_b),
           BoolVal(TRUE), BoolVal(FALSE), IntVal(4)}

\* ordered maps (distinct keys) of at most n entries
MapsUpTo(K, V, n) ==
  { m \in UNION { [1..l -> [key : K, val : V]] : l \in 0..n } :
      \A a, b \in 1..Len(m) : a # b => m[a].key # m[b].key }

\* the parameter map of the end-to-end scenario, in its insertion order
ScenarioMap ==
  << Param(s_verbose, StrVal(s_vvv)), Param(s_n_cpus, IntVal(4)),
     Param(s_float, BoolVal(TRUE)), Param(s_modality, StrVal(s_T1w_T2w)),
     Param(s_fd_thres, StrVal(s_empty)) >>

ParamMaps == MapsUpTo(BuildKeys, Values, MaxParams) \cup {ScenarioMap}

\* build_command is entered with a caller-supplied command line and map
Init ==
  /\ config = << >>
  /\ param_list \in ParamMaps
  /\ command \in CommandLines
  /\ cmd = << >>
  /\ i = 1
  /\ pc = "loop"
  /\ err = "none"
  /\ MainIdle

Next == build_command_iter \/ build_command_return

Spec == Init /\ [][Next]_vars

-----------------------------------------------------------------------------
(* utils/args.py: get_inputs_and_args and validate *)

\* the params built from context.config: keys that start with 'gear-' are
\* skipped, and so are empty strings
GetParams(cfg) ==
  LET Keep(e) == /\ Prefix(e.key, 5) # s_gear_prefix
                 /\ ~(e.val.t = "str" /\ Len(e.val.s) = 0)
  IN SelectSeq(cfg, Keep)

get_inputs_and_args ==
  /\ pc = "start"
  /\ param_list' = GetParams(config)
  /\ pc' = "params"
  /\ UNCHANGED <<config, command, cmd, i, err>>
  /\ UNCHANGED mainvars

\* x == 0 in Python: true of the int 0 and of False
PyEqZero(v) == (v.t = "int" /\ v.n = 0) \/ (v.t = "bool" /\ ~v.b)

\* 'start-idx' and 'stop-idx' are deleted from the params when they are 0
Validated(params) ==
  LET Keep(e) == ~(e.key \in {s_start_idx, s_stop_idx} /\ PyEqZero(e.val))
  IN SelectSeq(params, Keep)

\* validate, after which build_command runs on the params
validate ==
  /\ pc = "params"
  /\ param_list' = Validated(param_list)
  /\ i' = 1
  /\ pc' = "loop"
  /\ UNCHANGED <<config, command, cmd, err>>
  /\ UNCHANGED mainvars

-----------------------------------------------------------------------------
(* run.py: generate_command *)

BIDS_APP == s_mriqc

AnalysisLevels == {s_participant, s_group}

\* the library's build_command_list(cmd, command_parameters): the generic
\* emission for every key, in the order of the map
RECURSIVE build_command_list(_, _)
build_command_list(c, params) ==
  IF params = << >> THEN c
  ELSE build_command_list(EmitParam(c, Head(params).key, Head(params).val), Tail(params))

\* the tokens the loop over config appends for "bids_app_args": val.split(" "),
\* which raises AttributeError when val is no str
PassThrough(cfg) ==
  LET Is(e) == e.key = s_bids_app_args
      hit == SelectSeq(cfg, Is)
  IN IF hit = << >> THEN [tokens |-> << >>, err |-> "none"]
     ELSE IF hit[1].val.t # "str" THEN [tokens |-> << >>, err |-> "AttributeError"]
     ELSE [tokens |-> SplitOn(hit[1].val.s, " "), err |-> "none"]

\* command_parameters with the gear- keys let through
CommandParameters_NoGearFilter(cfg) ==
  LET Keep(e) == e.key # s_bids_app_args
  IN SelectSeq(cfg, Keep)

\* command_parameters: every key but "bids_app_args" and the gear- keys
CommandParameters(cfg) ==
  LET Keep(e) == e.key # s_bids_app_args /\ ~StartsWith(e.key, s_gear_prefix)
  IN SelectSeq(cfg, Keep)

\* the pass over cmd: a token cc that starts with "--verbose" becomes
\* "-" + cc.split("=")[1], which raises IndexError when cc holds no "="
RECURSIVE VerbosePass(_, _)
VerbosePass(c, ii) ==
  IF ii > Len(c) THEN [command |-> c, err |-> "none"]
  ELSE IF StartsWith(c[ii], s_ddash_verbose)
       THEN IF Len(SplitOn(c[ii], "=")) < 2
            THEN [command |-> c, err |-> "IndexError"]
            ELSE VerbosePass([c EXCEPT ![ii] = s_dash \o SplitOn(c[ii], "=")[2]], ii + 1)
       ELSE VerbosePass(c, ii + 1)

\* the whole of generate_command(config, ..., analysis_level)
GenerateCommand(cfg, level) ==
  LET start == <<BIDS_APP, s_bids, s_out, level>>
      pt == PassThrough(cfg)
      built == build_command_list(start \o pt.tokens, CommandParameters(cfg))
  IN IF pt.err # "none"
     THEN [command |-> << >>, err |-> pt.err, params |-> << >>]
     ELSE [command |-> VerbosePass(built, 1).command,
           err |-> VerbosePass(built, 1).err,
           params |-> CommandParameters(cfg)]

\* a call of generate_command; param_list holds the map it handed to the
\* builder, cmd the list it returned (nothing when it raised)
generate_command ==
  /\ pc = "start"
  /\ \E level \in AnalysisLevels :
       LET r == GenerateCommand(config, level) IN
         /\ err' = r.err
         /\ param_list' = r.params
         /\ cmd' = IF r.err = "none" THEN r.command ELSE << >>
         /\ pc' = IF r.err = "none" THEN "generated" ELSE "raised"
  /\ UNCHANGED <<config, command, i>>
  /\ UNCHANGED mainvars

-----------------------------------------------------------------------------
(* The gear's configuration (config.json) *)

GearKeys == {s_verbose, s_verbose_reports, s_gear_dry_run, s_bids_app_args, s_start_idx}

GearValues == {StrVal(s_empty), StrVal(s_vv), StrVal(s_a_b), StrVal(s_ddash_verbose),
               BoolVal(TRUE), BoolVal(FALSE), IntVal(0)}

Configs == MapsUpTo(GearKeys, GearValues, MaxParams)

InitGear ==
  /\ config \in Configs
  /\ param_list = << >>
  /\ command = <<s_mriqc>> \o Positionals
  /\ cmd = << >>
  /\ i = 1
  /\ pc = "start"
  /\ err = "none"
  /\ MainIdle

NextGear ==
  \/ get_inputs_and_args
  \/ validate
  \/ build_command_iter
  \/ build_command_return
  \/ generate_command

SpecGear == InitGear /\ [][NextGear]_vars

-----------------------------------------------------------------------------
(* run.py: set_performance_config *)

\* config.get(key): the value, or None when the key is absent
DictGet(cfg, key) ==
  LET Is(e) == e.key = key
      hit == SelectSeq(cfg, Is)
  IN IF hit = << >> THEN NoneVal ELSE hit[1].val

\* config[key] = val: in place when the key is there, at the end otherwise
DictSet(cfg, key, val) ==
  IF \E j \in 1..Len(cfg) : cfg[j].key = key
  THEN [j \in 1..Len(cfg) |-> IF cfg[j].key = key THEN Param(key, val) ELSE cfg[j]]
  ELSE Append(cfg, Param(key, val))

\* the truth value of x in "if x:"
Truthy(v) ==
  CASE v.t = "none" -> FALSE
    [] v.t = "bool" -> v.b
    [] v.t = "int" -> v.n # 0
    [] v.t = "str" -> Len(v.s) # 0

\* Capped without the comparison against the maximum
Capped_NoCap(v, max) == IF Truthy(v) THEN v ELSE IntVal(max)

\* the value a setting ends with: the given one unless it is too big, the
\* maximum when it is zero or absent
Capped(v, max) ==
  IF Truthy(v)
  THEN (IF v.n > max THEN IntVal(max) ELSE v)
  ELSE IntVal(max)

\* one of the two halves of set_performance_config: config is assigned only
\* where the code assigns it
SetCapped(cfg, key, max) ==
  IF Capped(DictGet(cfg, key), max) = DictGet(cfg, key)
  THEN cfg
  ELSE DictSet(cfg, key, Capped(DictGet(cfg, key), max))

\* 1024 MiB in a GiB: memory is counted here in MiB, where the code divides
\* a number of bytes by 1024 ** 3
MiBPerGiB == 1024

\* int(psutil.virtual_memory().available / (1024 ** 3))
MemGiB(available_mib) == available_mib \div MiBPerGiB

\* what psutil may report as available, in steps of half a GiB
AvailableMiB == { h * (MiBPerGiB \div 2) : h \in 0..(2 * MaxMemGiB + 1) }

-----------------------------------------------------------------------------
(* run.py: main *)

BidsError == "BIDS Error(s) detected.  Did not run flywheel-apps/bids-mriqc]"

DryRunWarning == "gear-dry-run is set: Command was NOT run."

\* main up to the call of set_performance_config, and that call
main_set_performance_config ==
  /\ pc = "main"
  /\ errors' = << >>
  /\ warnings' = << >>
  /\ dry_run' = DictGet(config, s_gear_dry_run)
  /\ \E cpus \in 1..MaxCpu, available \in AvailableMiB :
       /\ os_cpu_count' = cpus
       /\ psutil_mem_gb' = MemGiB(available)
       /\ config' = SetCapped(SetCapped(config, s_n_cpus, cpus),
                              s_mem_gb, MemGiB(available))
  /\ n_cpus' = DictGet(config, s_n_cpus)
  /\ mem_gb' = DictGet(config, s_mem_gb)
  /\ pc' = "generate"
  /\ UNCHANGED <<param_list, command, cmd, i, err, return_code, exec_calls>>

\* command = generate_command(config, ...): an exception leaves main
main_generate_command ==
  /\ pc = "generate"
  /\ LET r == GenerateCommand(config, s_participant) IN
       /\ err' = r.err
       /\ param_list' = r.params
       /\ cmd' = IF r.err = "none" THEN r.command ELSE << >>
       /\ pc' = IF r.err = "none" THEN "download" ELSE "raised"
  /\ UNCHANGED <<config, command, i, mainvars>>

\* the download of the BIDS data, whose error code is the platform's answer
main_download_bids ==
  /\ pc = "download"
  /\ \E error_code \in 0..1 :
       errors' = IF Len(errors) = 0
                    /\ error_code > 0
                    /\ ~Truthy(DictGet(config, s_gear_ignore_bids_errors))
                 THEN Append(errors, BidsError)
                 ELSE errors
  /\ pc' = "run"
  /\ UNCHANGED <<config, param_list, command, cmd, i, err, warnings, dry_run,
                 return_code, exec_calls, os_cpu_count, psutil_mem_gb, n_cpus, mem_gb>>

\* from "return_code = 0" to the end of the try statement: exec_command ends
\* normally or raises RuntimeError; at the project level a second command is
\* generated and executed after the first
main_run ==
  /\ pc = "run"
  /\ \E project \in BOOLEAN, outcome \in {"ok", "RuntimeError"} :
       IF Truthy(dry_run)
       THEN /\ return_code' = 0
            /\ warnings' = Append(warnings, DryRunWarning)
            /\ UNCHANGED <<errors, exec_calls>>
       ELSE /\ exec_calls' = exec_calls + (IF project /\ outcome = "ok" THEN 2 ELSE 1)
            /\ errors' = IF outcome = "ok" THEN errors ELSE Append(errors, outcome)
            /\ return_code' = IF outcome = "ok"
                              THEN (IF Len(errors) > 0 THEN 1 ELSE 0)
                              ELSE 1
            /\ UNCHANGED warnings
  /\ pc' = "finally"
  /\ UNCHANGED <<config, param_list, command, cmd, i, err, dry_run,
                 os_cpu_count, psutil_mem_gb, n_cpus, mem_gb>>

\* the finally block and the return: any error makes the return code 1
main_finally ==
  /\ pc = "finally"
  /\ return_code' = IF Len(errors) > 0 THEN 1 ELSE return_code
  /\ pc' = "returned"
  /\ UNCHANGED <<config, param_list, command, cmd, i, err, errors, warnings,
                 dry_run, exec_calls, os_cpu_count, psutil_mem_gb, n_cpus, mem_gb>>

\* an entry of config.json, or none when v is None
Opt(key, v) == IF v = NoneVal THEN << >> ELSE <<Param(key, v)>>

\* the configurations main is run on
MainConfigs ==
  { Opt(s_n_cpus, a) \o Opt(s_mem_gb, b) \o Opt(s_gear_dry_run, c)
      \o Opt(s_gear_ignore_bids_errors, d) :
      a \in {NoneVal} \cup { IntVal(n) : n \in (-1)..(MaxCpu + 1) },
      b \in {NoneVal} \cup { IntVal(n) : n \in (-1)..(MaxMemGiB + 1) },
      c \in {NoneVal, BoolVal(TRUE), BoolVal(FALSE)},
      d \in {NoneVal, BoolVal(TRUE), BoolVal(FALSE)} }

InitMain ==
  /\ config \in MainConfigs
  /\ param_list = << >>
  /\ command = << >>
  /\ cmd = << >>
  /\ i = 1
  /\ pc = "main"
  /\ err = "none"
  /\ MainIdle

NextMain ==
  \/ main_set_performance_config
  \/ main_generate_command
  \/ main_download_bids
  \/ main_run
  \/ main_finally

SpecMain == InitMain /\ [][NextMain]_vars

-----------------------------------------------------------------------------
(* Properties of build_command *)

Tokens(c) == { c[j] : j \in 1..Len(c) }

\* the string s contains p
Contains(s, p) == \E j \in 1..(Len(s) - Len(p) + 1) : SubSeq(s, j, j + Len(p) - 1) = p

\* the call has returned its list
Built == pc = "built"

\* the loop is about to process a key
AtKey == pc = "loop" /\ i <= Len(param_list)

ScenarioCommand ==
  << s_mriqc, s_bids, s_out, s_participant, s_dash \o s_vvv,
     s_ddash \o s_n_cpus \o s_eq \o <<"4">>, s_ddash \o s_float,
     s_ddash \o s_modality, s_T1w, s_T2w, s_ddash \o s_fd_thres >>

\* C1: building from ["mriqc", "/bids", "/out", "participant"] and the map
\* {verbose: "vvv", n_cpus: 4, float: true, modality: "T1w T2w", fd_thres: ""}
\* yields exactly ["mriqc", "/bids", "/out", "participant", "-vvv",
\* "--n_cpus=4", "--float", "--modality", "T1w", "T2w", "--fd_thres"].
C1_EndToEnd ==
  (Built /\ param_list = ScenarioMap /\ command[1] = s_mriqc)
    => command = ScenarioCommand

C1_Witness == Built /\ param_list = ScenarioMap /\ command[1] = s_mriqc

\* C2: for the key "verbose" with any string value v, the returned command
\* contains the token "-" + v and no token that starts with "--verbose".
C2_VerboseOverride ==
  Built =>
    \A j \in 1..Len(param_list) :
      (param_list[j].key = s_verbose /\ param_list[j].val.t = "str") =>
        /\ (s_dash \o param_list[j].val.s) \in Tokens(command)
        /\ \A tok \in Tokens(command) : ~StartsWith(tok, s_ddash_verbose)

\* C3: for a key k of length >= 2 other than "verbose" whose string value
\* splits on whitespace into more than one piece, the returned command holds
\* "--k" immediately followed by the pieces, in order, and no token "--k=...".
C3_MultiValue ==
  Built =>
    \A j \in 1..Len(param_list) :
      LET k == param_list[j].key
          v == param_list[j].val
      IN (Len(k) >= 2 /\ k # s_verbose /\ v.t = "str" /\ Len(SplitWs(v.s)) > 1) =>
           /\ \E p \in 1..Len(command) :
                /\ p + Len(SplitWs(v.s)) <= Len(command)
                /\ SubSeq(command, p, p + Len(SplitWs(v.s)))
                     = <<s_ddash \o k>> \o SplitWs(v.s)
           /\ \A tok \in Tokens(command) : ~StartsWith(tok, s_ddash \o k \o s_eq)

C3_Witness ==
  /\ Built
  /\ \E j \in 1..Len(param_list) :
       /\ param_list[j].key = s_float
       /\ param_list[j].val = StrVal(s_a_b)
  /\ <<s_ddash \o s_float, s_a, s_b>> = SubSeq(command, 5, 7)

C5_ShortFlag ==
  [][ (AtKey /\ Len(param_list[i].key) = 1) =>
        /\ err' = "none"
        /\ command' = command \o <<s_dash \o param_list[i].key>>
                        \o (CASE param_list[i].val = StrVal(s_empty) -> << >>
                              [] param_list[i].val = StrVal(s_vv) -> <<s_vv>>
                              [] param_list[i].val = StrVal(s_a_b) -> <<s_a_b>>
                              [] param_list[i].val = BoolVal(TRUE) -> <<s_True>>
                              [] param_list[i].val = BoolVal(FALSE) -> <<s_False>>
                              [] param_list[i].val = IntVal(4) -> << <<"4">> >>) ]_vars

C5_Witness ==
  /\ Built
  /\ Len(param_list) = 2
  /\ param_list[1] = Param(s_n, StrVal(s_empty))
  /\ param_list[2] = Param(s_float, BoolVal(TRUE))
  /\ SubSeq(command, 5, 6) = <<s_dash \o s_n, s_ddash \o s_float>>

\* C6: the tokens generated for the keys appear in the order of the keys in
\* the map: an iteration leaves every token already in the command where it
\* is (those of the earlier keys) and puts its own tokens after them.
C6_OrderPreserved ==
  [][ AtKey =>
        /\ Len(command') >= Len(command)
        /\ SubSeq(command', 1, Len(command)) = command ]_vars

C6_Witness ==
  /\ Built
  /\ Len(param_list) = 2
  /\ param_list[1].key = s_n
  /\ param_list[2] = Param(s_verbose, StrVal(s_vv))
  /\ command[Len(command)] = s_dash \o s_vv

\* C9: the builder signals an error, and returns no token sequence, when the
\* program name is empty or a parameter key is the empty string.
C9_ContractViolation ==
  (command[1] = s_empty \/ \E j \in 1..Len(param_list) : param_list[j].key = s_empty)
    => ~Built

\* C10: for every map with non-empty keys, whatever the shapes of the values,
\* command building raises no error.
C10_NoError ==
  (\A j \in 1..Len(param_list) : param_list[j].key # s_empty) => err = "none"

-----------------------------------------------------------------------------
(* Properties of the gear's pipeline, under SpecGear *)

\* C7: the whitespace-split pieces of the bids_app_args string are in the
\* returned command unchanged and in order, right after the program name and
\* the three positional arguments and before every generated token, and the
\* bids_app_args key generates no flag.
C7_PassThroughBlock ==
  pc = "generated" =>
    \A j \in 1..Len(config) :
      (config[j].key = s_bids_app_args /\ config[j].val.t = "str") =>
        LET pieces == SplitWs(config[j].val.s) IN
          /\ Len(cmd) = 4 + Len(pieces) + Len(build_command_list(<< >>, param_list))
          /\ SubSeq(cmd, 5, 4 + Len(pieces)) = pieces
          /\ \A tok \in Tokens(cmd) : ~StartsWith(tok, s_ddash \o s_bids_app_args)

\* C8: no key that starts with "gear-" is in the map handed to the builder,
\* and no token of a command comes from such a key.
C8_NoGearKeys ==
  /\ \A j \in 1..Len(param_list) : ~StartsWith(param_list[j].key, s_gear_prefix)
  /\ \A tok \in Tokens(command) \cup Tokens(cmd) :
       ~StartsWith(tok, s_ddash \o s_gear_prefix)

C8_Witness ==
  /\ pc = "generated"
  /\ config = << Param(s_gear_dry_run, BoolVal(TRUE)), Param(s_verbose, StrVal(s_vv)) >>
  /\ param_list = << Param(s_verbose, StrVal(s_vv)) >>
  /\ Len(cmd) = 5
  /\ cmd[5] = s_dash \o s_vv

-----------------------------------------------------------------------------
(* Properties of main, under SpecMain *)

\* C11: exec_command is called only when no error was recorded before the
\* execution step and gear-dry-run is not set; after a BIDS error it is never
\* called and main returns 1.
C11_ExecOnlyWhenClean ==
  /\ exec_calls > 0 => (BidsError \notin Tokens(errors) /\ ~Truthy(dry_run))
  /\ (pc = "returned" /\ BidsError \in Tokens(errors))
       => (exec_calls = 0 /\ return_code = 1)

\* the value of config[key] after set_performance_config, given the
\* configured value and the available maximum
PerformanceRule(given, max, key) ==
  LET new == DictGet(config, key) IN
    /\ new.t = "int"
    /\ (given.t = "int" /\ given.n # 0 /\ given.n <= max) => new = given
    /\ (given = NoneVal \/ given.n = 0 \/ given.n > max) => new.n = max
    /\ new.n <= max

\* C12: after set_performance_config, n_cpus (against the CPU count) and
\* mem_gb (against the available whole GiB) are the configured value when it
\* is given, not zero and not above the maximum, and the maximum otherwise;
\* neither exceeds its maximum.
C12_PerformanceCapped ==
  pc \in {"generate", "download", "run", "finally", "returned"} =>
    /\ PerformanceRule(n_cpus, os_cpu_count, s_n_cpus)
    /\ PerformanceRule(mem_gb, psutil_mem_gb, s_mem_gb)

C12_Witness ==
  /\ pc = "generate"
  /\ n_cpus.t = "int" /\ n_cpus.n > os_cpu_count
  /\ mem_gb.t = "int" /\ mem_gb.n = 1 /\ psutil_mem_gb = 2
  /\ DictGet(config, s_n_cpus) = IntVal(os_cpu_count)
  /\ DictGet(config, s_mem_gb) = IntVal(1)

====
